---------------------------- MODULE Spec2Model ----------------------------
(***************************************************************************)
(* Arbor Market: the order dispatch classifier and code generation of      *)
(* Order.save (marketplace/models.py), the order operations and the        *)
(* group-buy operations of marketplace/views.py.                           *)
(*                                                                         *)
(* Money is counted in whole cents.  A CharField that is unset (None or    *)
(* the empty string, both falsy in Python) is the empty sequence; a        *)
(* numeric string is the sequence of its decimal digits.  A foreign key    *)
(* that is NULL is the string "None".                                      *)
(***************************************************************************)
EXTENDS Integers, Sequences, FiniteSets

VARIABLES
    inst,          \* SpecClassify: an Order instance in memory and whether it was saved
    orders,        \* the Order table: id -> row
    nextOrderId,   \* the Order table's next auto-increment id
    stock,         \* Crop.stock_quantity, per crop
    groups,        \* the GroupBuy table: a sequence of rows, id = index
    members,       \* the GroupMember table: a set of rows, each with its id
    nextMemberId,  \* the GroupMember table's next auto-increment id
    reqs,          \* SpecGroupConc: the requests in flight, per worker
    errors,        \* the exceptions views have raised (each answered with a 500)
    backend,       \* the database engine DATABASES['default'] resolves to
    users,         \* the CustomUser table: a sequence of rows, id = index
    profiles,      \* the DriverProfile table: a set of rows
    sessions       \* per browser, the id of the user its session is logged in as

vars == <<inst, orders, nextOrderId, stock, groups, members, nextMemberId, reqs,
          errors, backend, users, profiles, sessions>>

\* The tables of the users app and the sessions.
UserTables == <<users, profiles, sessions>>

\* The browsers that send requests, each with its own session cookie.
Browsers == {"browser1"}

\* request.user.id of a session nobody is logged in to (AnonymousUser).
Anonymous == 0

\* No user has registered and no browser is logged in.
NoUsers ==
    /\ users = <<>>
    /\ profiles = {}
    /\ sessions = [b \in Browsers |-> Anonymous]

None == "None"

\* dj_database_url.config(default='sqlite:///...'): SQLite unless DATABASE_URL
\* names a PostgreSQL server.
Backends == {"sqlite", "postgresql"}

(***************************************************************************)
(* Order.save: codes and dispatch classification                           *)
(***************************************************************************)

W_MAX == 100
D_MAX == 50

RandLo == 1000
RandHi == 9999

\* The values of random.randint(1000, 9999) the model draws.
RandInts == {RandLo, RandHi}

RECURSIVE Str(_)
\* str(n) of a non-negative integer: its decimal digits, most significant first.
Str(n) == IF n < 10 THEN <<n>> ELSE Append(Str(n \div 10), n % 10)

\* A variant that draws a new code at every save (not the code's rule).
GenCodeEverySave(code) == {Str(n) : n \in RandInts}

\* `if not self.pod_code: self.pod_code = str(random.randint(1000, 9999))`:
\* the values the field may hold after the statement.
GenCode(code) == IF code = <<>> THEN {Str(n) : n \in RandInts} ELSE {code}

\* A variant with inclusive thresholds (not the code's rule).
ClassifyAtOrAbove(weight_kg, distance_km) ==
    IF weight_kg >= W_MAX \/ distance_km >= D_MAX THEN "CDN" ELSE "DEDICATED"

\* The hybrid dispatch rule of Order.save.
Classify(weight_kg, distance_km) ==
    IF weight_kg > W_MAX \/ distance_km > D_MAX THEN "CDN" ELSE "DEDICATED"

\* A variant of save() that sets the codes and leaves dispatch_method alone.
OrderSaveCodesOnly(o) ==
    { [o EXCEPT !.pod_code = pod, !.delivery_pin = pin] :
        pod \in GenCode(o.pod_code), pin \in GenCode(o.delivery_pin) }

\* Order.save(): the rows the save may write for the instance o.
OrderSave(o) ==
    { [o EXCEPT !.pod_code = pod,
                !.delivery_pin = pin,
                !.dispatch_method = Classify(o.weight_kg, o.distance_km)] :
        pod \in GenCode(o.pod_code), pin \in GenCode(o.delivery_pin) }

(***************************************************************************)
(* SpecClassify: Order.save applied to instances of any weight/distance    *)
(***************************************************************************)

ClassifySpread == 2

Weights == {-1, 0, 10} \cup ((W_MAX - ClassifySpread) .. (W_MAX + ClassifySpread))
Distances == {-1, 0, 5} \cup ((D_MAX - ClassifySpread) .. (D_MAX + ClassifySpread))

NewInstance(w, d) ==
    [weight_kg |-> w, distance_km |-> d, dispatch_method |-> "PENDING",
     pod_code |-> <<>>, delivery_pin |-> <<>>]

InitRest ==
    /\ orders = <<>>
    /\ nextOrderId = 1
    /\ stock = <<>>
    /\ groups = <<>>
    /\ members = {}
    /\ nextMemberId = 1
    /\ reqs = <<>>
    /\ errors = {}
    /\ backend \in Backends
    /\ NoUsers

InitClassify ==
    /\ \E w \in Weights, d \in Distances :
          inst = [obj |-> NewInstance(w, d), saves |-> 0]
    /\ InitRest

MaxSaves == 2

\* instance.save() on the instance in memory (a first save, then saves again).
SaveInstance ==
    /\ inst.saves < MaxSaves
    /\ \E o \in OrderSave(inst.obj) :
          inst' = [obj |-> o, saves |-> inst.saves + 1]
    /\ UNCHANGED <<orders, nextOrderId, stock, groups, members, nextMemberId, reqs,
                   errors, backend, UserTables>>

NextClassify == SaveInstance

SpecClassify == InitClassify /\ [][NextClassify]_vars

\* C1: for all integer weight_kg and distance_km (negative included) a saved
\* order's dispatch_method is CDN exactly when weight_kg > 100 or
\* distance_km > 50 and DEDICATED otherwise; (100, 50) gives DEDICATED, and
\* weight 101 or distance 51 gives CDN whatever the other input is.
C1_DispatchRule ==
    inst.saves > 0 =>
        /\ inst.obj.dispatch_method \in {"CDN", "DEDICATED"}
        /\ inst.obj.dispatch_method = "CDN" <=>
              (inst.obj.weight_kg > 100 \/ inst.obj.distance_km > 50)
        /\ (inst.obj.weight_kg = 100 /\ inst.obj.distance_km = 50)
              => inst.obj.dispatch_method = "DEDICATED"
        /\ (inst.obj.weight_kg = 101 \/ inst.obj.distance_km = 51)
              => inst.obj.dispatch_method = "CDN"

\* A saved instance at the boundary of one input and beyond it on the other.
C1_Witness ==
    /\ inst.saves > 0
    /\ inst.obj.weight_kg = 100
    /\ inst.obj.distance_km = 51
    /\ inst.obj.dispatch_method = "CDN"


(***************************************************************************)
(* Users and products                                                      *)
(***************************************************************************)

Users == {"buyer1", "buyer2", "farmer1", "supplier1", "driver1", "driver2"}

\* CustomUser.user_type
user_type(u) ==
    CASE u \in {"buyer1", "buyer2"} -> "buyer"
      [] u = "farmer1" -> "farmer"
      [] u = "supplier1" -> "supplier"
      [] OTHER -> "delivery"

Crops == {"crop1"}
InputProducts == {"input1"}

\* Crop.farmer, InputProduct.supplier
farmer(c) == "farmer1"
supplier(i) == "supplier1"

\* Crop.price_per_kg, in cents
price_per_kg(c) == 1250

(***************************************************************************)
(* Money: DecimalField(decimal_places=2) values, in cents                  *)
(***************************************************************************)

\* num/den (den > 0) rounded to an integer, ties to even: the quantize() of
\* django.db.backends.utils.format_number under the default decimal context.
RoundHalfEven(num, den) ==
    LET n == IF den < 0 THEN 0 - num ELSE num
        d == IF den < 0 THEN 0 - den ELSE den
        q == n \div d
        r == n % d
    IN  IF 2 * r < d THEN q
        ELSE IF 2 * r > d THEN q + 1
        ELSE IF q % 2 = 0 THEN q ELSE q + 1

\* num/den rounded to an integer, ties away from zero: the rounding of a
\* PostgreSQL numeric(_, 2) column, which is handed the Decimal as it is.
RoundHalfUp(num, den) ==
    LET n == IF den < 0 THEN 0 - num ELSE num
        d == IF den < 0 THEN 0 - den ELSE den
        q == n \div d
        r == n % d
    IN  IF 2 * r < d THEN q
        ELSE IF 2 * r > d THEN q + 1
        ELSE IF n >= 0 THEN q + 1 ELSE q

\* An amount of num/den cents in memory, as the DecimalField column keeps it.
Quantize(num, den) ==
    IF backend = "sqlite" THEN RoundHalfEven(num, den) ELSE RoundHalfUp(num, den)

\* An amount of num/den cents in memory, as stored in total_price.
StoredTotal(num, den) == Quantize(num, den)

\* total * Decimal('0.05') for a total of num/den cents in memory, as stored
\* in commission_fee.
StoredCommission(num, den) == Quantize(num * 5, den * 100)

\* total - commission (the unrounded values in memory), as stored in
\* seller_earnings.
StoredEarnings(num, den) == Quantize(num * 95, den * 100)

(***************************************************************************)
(* Orders                                                                  *)
(***************************************************************************)

DefaultWeightKg == 10
DefaultDistanceKm == 5

\* Order(...) with the model's field defaults, before its first save.
NewOrder(buyer, seller, quantity, total, pay_method, delivery_location) ==
    [buyer |-> buyer, seller |-> seller, quantity |-> quantity,
     total_price |-> total,
     commission_fee |-> StoredCommission(total, 1),
     seller_earnings |-> StoredEarnings(total, 1),
     delivery_location |-> delivery_location,
     driver |-> None, driver_name |-> None, driver_phone |-> None,
     payment_method |-> pay_method, payment_proof |-> FALSE,
     is_payment_verified |-> FALSE,
     status |-> "pending",
     delivery_pin |-> <<>>, pod_code |-> <<>>,
     weight_kg |-> DefaultWeightKg, distance_km |-> DefaultDistanceKm,
     dispatch_method |-> "PENDING"]

OrderIds == DOMAIN orders

\* The Order table after row id is inserted or updated with row.
PutOrder(id, row) ==
    [i \in OrderIds \cup {id} |-> IF i = id THEN row ELSE orders[i]]

MaxOrders == 1

\* CustomUser.first_name, "first_name last_name", phone_number
first_name(u) == CASE u = "driver1" -> "Dawit" [] u = "driver2" -> "Daniel" [] OTHER -> "Other"
full_name(u) ==
    CASE u = "driver1" -> "Dawit Alemu" [] u = "driver2" -> "Daniel Bekele"
      [] OTHER -> "Other User"
phone_number(u) ==
    CASE u = "driver1" -> "0911000001" [] u = "driver2" -> "0911000002"
      [] OTHER -> "0911000000"

\* User.location of the buyer at checkout
user_location(u) == "Addis Ababa"

\* A view that raises: nothing is written and the exception is recorded.
Raise(exception) == errors' = errors \cup {exception}

\* The frame of a view that touches the Order table only.
OrderTableOnly == UNCHANGED <<UserTables, backend, errors, inst, stock, groups, members, nextMemberId, reqs>>

\* order.save() of the changed instance row of order id.
SaveOrder(id, row) ==
    /\ \E saved \in OrderSave(row) : orders' = PutOrder(id, saved)
    /\ UNCHANGED nextOrderId

\* `if qty > item.stock_quantity` of checkout
InsufficientStock(qty, stock_quantity) == qty > stock_quantity

\* checkout(request, 'crop', item_id), a POST
checkout(user, crop, qty, pay_method) ==
    /\ crop \in DOMAIN stock
    /\ IF InsufficientStock(qty, stock[crop])
       THEN UNCHANGED <<orders, nextOrderId, stock>>
       ELSE /\ nextOrderId <= MaxOrders
            /\ \E row \in OrderSave(NewOrder(user, farmer(crop), qty,
                                             price_per_kg(crop) * qty, pay_method,
                                             user_location(user))) :
                  orders' = PutOrder(nextOrderId, row)
            /\ nextOrderId' = nextOrderId + 1
            /\ stock' = [stock EXCEPT ![crop] = @ - qty]
    /\ UNCHANGED <<UserTables, backend, errors, inst, groups, members, nextMemberId, reqs>>

\* order_detail(request, order_id): the driver self-assignment of a POST
order_detail(user, id, method, driver_name, driver_phone) ==
    /\ id \in OrderIds
    /\ LET order == orders[id]
       IN  IF /\ (user_type(user) = "delivery" \/ user = order.buyer
                                                \/ user = order.seller)
              /\ method = "POST"
              /\ user_type(user) = "delivery"
              /\ driver_name # ""
           THEN SaveOrder(id, [order EXCEPT !.driver_name = driver_name,
                                            !.driver_phone = driver_phone,
                                            !.status = "assigned"])
           ELSE UNCHANGED <<orders, nextOrderId>>
    /\ OrderTableOnly

\* unit_price * new_quantity of edit_order, in cents as a fraction:
\* (total_price / quantity) * new_quantity, taken exactly.
EditTotalNum(order, new_quantity) == order.total_price * new_quantity
EditTotalDen(order, new_quantity) == order.quantity

\* A variant that edits an order whatever its status (not the code's rule).
NotEditableNever(order) == FALSE

\* `if order.status != 'pending'` of edit_order
NotEditable(order) == order.status # "pending"

\* edit_order(request, order_id), a POST of an integer quantity
edit_order(user, id, new_quantity) ==
    /\ id \in OrderIds
    /\ LET order == orders[id]
           num == EditTotalNum(order, new_quantity)
           den == EditTotalDen(order, new_quantity)
       IN  IF \/ user # order.buyer          \* 404
              \/ NotEditable(order)
              \/ new_quantity < 1
           THEN UNCHANGED <<orders, nextOrderId, errors>>
           \* `order.total_price / order.quantity` with quantity 0 and total
           \* 0.00 raises decimal.InvalidOperation before anything is written
           ELSE IF order.quantity = 0
           THEN /\ Raise("edit_order: InvalidOperation")
                /\ UNCHANGED <<orders, nextOrderId>>
           ELSE /\ SaveOrder(id, [order EXCEPT
                        !.quantity = new_quantity,
                        !.total_price = StoredTotal(num, den),
                        !.commission_fee = StoredCommission(num, den),
                        !.seller_earnings = StoredEarnings(num, den)])
                /\ UNCHANGED errors
    /\ UNCHANGED <<UserTables, backend, inst, stock, groups, members, nextMemberId, reqs>>

\* A variant that cancels an order whatever its status (not the code's rule).
NotCancellableNever(order) == FALSE

\* `if order.status != 'pending'` of cancel_order
NotCancellable(order) == order.status # "pending"

\* cancel_order(request, order_id)
cancel_order(user, id) ==
    /\ id \in OrderIds
    /\ IF user # orders[id].buyer \/ NotCancellable(orders[id])
       THEN UNCHANGED orders
       ELSE orders' = [i \in OrderIds \ {id} |-> orders[i]]
    /\ UNCHANGED nextOrderId
    /\ OrderTableOnly

\* bank_transfer(request, order_id)
bank_transfer(user, id, method, has_proof) ==
    /\ id \in OrderIds
    /\ IF method = "POST" /\ has_proof
       THEN SaveOrder(id, [orders[id] EXCEPT !.payment_proof = TRUE,
                                             !.status = "payment_review"])
       ELSE UNCHANGED <<orders, nextOrderId>>
    /\ OrderTableOnly

\* approve_payment(request, order_id)
approve_payment(user, id) ==
    /\ id \in OrderIds
    /\ IF user # orders[id].seller
       THEN UNCHANGED <<orders, nextOrderId>>
       ELSE SaveOrder(id, [orders[id] EXCEPT !.is_payment_verified = TRUE,
                                             !.status = "pending"])
    /\ OrderTableOnly

\* telebirr_pay(request, order_id)
telebirr_pay(user, id, method) ==
    /\ id \in OrderIds
    /\ IF user # orders[id].buyer \/ method # "POST"
       THEN UNCHANGED <<orders, nextOrderId>>
       ELSE SaveOrder(id, [orders[id] EXCEPT !.is_payment_verified = TRUE])
    /\ OrderTableOnly

\* A variant that hands out a job whatever its status (not the code's rule).
JobTakenNever(order) == FALSE

\* `if order.status != 'pending'` of accept_job
JobTaken(order) == order.status # "pending"

\* accept_job(request, order_id)
accept_job(user, id) ==
    /\ id \in OrderIds
    /\ IF JobTaken(orders[id])
       THEN UNCHANGED <<orders, nextOrderId>>
       ELSE SaveOrder(id, [orders[id] EXCEPT !.driver = user,
                                             !.driver_name = first_name(user),
                                             !.driver_phone = phone_number(user),
                                             !.status = "assigned"])
    /\ OrderTableOnly

\* update_status(request, order_id, new_status)
update_status(user, id, new_status) ==
    /\ id \in OrderIds
    /\ IF user_type(user) # "delivery"
       THEN UNCHANGED <<orders, nextOrderId>>
       ELSE IF new_status = "assigned"
       THEN SaveOrder(id, [orders[id] EXCEPT !.driver = user,
                                             !.driver_name = full_name(user),
                                             !.driver_phone = phone_number(user),
                                             !.status = "assigned"])
       ELSE SaveOrder(id, [orders[id] EXCEPT !.status = new_status])
    /\ OrderTableOnly

\* A variant that takes any entered code (not the code's rule).
WrongPinNever(entered_pin, order) == FALSE

\* the else of `if entered_pin == order.delivery_pin` of verify_delivery
WrongPin(entered_pin, order) == entered_pin # order.delivery_pin

\* verify_delivery(request, order_id); entered is POST['pod_code'].strip()
verify_delivery(user, id, method, entered) ==
    /\ id \in OrderIds
    /\ IF orders[id].driver # user \/ method # "POST"
             \/ WrongPin(entered, orders[id])
       THEN UNCHANGED <<orders, nextOrderId>>
       ELSE SaveOrder(id, [orders[id] EXCEPT !.status = "delivered"])
    /\ OrderTableOnly

(***************************************************************************)
(* Group buying: the tables                                                *)
(***************************************************************************)

MaxGroups == 1
MaxMembers == 2

TargetQuantities == {60, 100}
DiscountPrices == {250}
DeliveryLocations == {"Bole Atlas"}
JoinQuantities == {45, 60}

GroupIds == DOMAIN groups

\* group.members.all()
MembersOf(g) == {m \in members : m.group = g}

RECURSIVE SumCommitted(_)
\* The sum of quantity_committed over a set of GroupMember rows.
SumCommitted(ms) ==
    IF ms = {} THEN 0
    ELSE LET m == CHOOSE x \in ms : TRUE
         IN  m.quantity_committed + SumCommitted(ms \ {m})

\* A variant that confirms only strictly above the target (not the code's rule).
JoinStrictlyAbove(group, quantity) ==
    LET q == group.current_quantity + quantity
    IN  [group EXCEPT !.current_quantity = q,
                      !.status = IF q > group.target_quantity
                                 THEN "confirmed" ELSE @]

\* The group row in memory after join_group's
\*   group.current_quantity += quantity
\*   if group.current_quantity >= group.target_quantity: group.status = 'confirmed'
JoinUpdate(group, quantity) ==
    LET q == group.current_quantity + quantity
    IN  [group EXCEPT !.current_quantity = q,
                      !.status = IF q >= group.target_quantity
                                 THEN "confirmed" ELSE @]

\* Two variants of the removal (not the code's rule): one that keeps the
\* quantity, one that reopens a confirmed group that fell below its target.
RemoveKeepQuantity(group, member) == group

RemoveReopen(group, member) ==
    LET q == group.current_quantity - member.quantity_committed
    IN  [group EXCEPT !.current_quantity = q,
                      !.status = IF q < group.target_quantity THEN "open" ELSE @]

\* The group row in memory after remove_member's
\*   group.current_quantity -= member.quantity_committed
RemoveUpdate(group, member) ==
    [group EXCEPT !.current_quantity = @ - member.quantity_committed]

\* member = form.save(commit=False); member.group = group; member.user = user
NewMember(id, g, user, quantity) ==
    [id |-> id, group |-> g, user |-> user, quantity_committed |-> quantity]

\* JoinGroupForm(request.POST): its validity and cleaned quantity_committed
\* (an IntegerField without bounds: any integer is valid).
InvalidJoinForm == [valid |-> FALSE, quantity_committed |-> 0]

JoinForms ==
    {InvalidJoinForm}
        \cup {[valid |-> TRUE, quantity_committed |-> q] : q \in JoinQuantities}

\* The requests join_group is sent: a GET (no form data), or a POST of a form.
JoinRequests ==
    {[method |-> "GET", form |-> InvalidJoinForm]}
        \cup {[method |-> "POST", form |-> f] : f \in JoinForms}

\* A variant that still admits joins to a confirmed group (not the code's rule).
NotJoinableWhenClosed(group) == group.status \notin {"open", "confirmed"}

\* `if group.status != 'open'` of join_group: the request is turned away.
NotJoinable(group) == group.status # "open"

\* `if request.user != group.initiator` of remove_member and place_group_order
NotInitiator(user, group) == user # group.initiator

(***************************************************************************)
(* Group buying: the views, each request run to completion                 *)
(***************************************************************************)

\* create_group(request, item_type, item_id) with a valid form
create_group(user, item_type, item, target, price, location) ==
    /\ Len(groups) < MaxGroups
    /\ groups' = Append(groups,
          [initiator |-> user,
           target_crop |-> IF item_type = "crop" THEN item ELSE None,
           target_input |-> IF item_type = "input" THEN item ELSE None,
           delivery_location |-> location,
           target_quantity |-> target,
           current_quantity |-> 0,
           discount_price |-> price,
           status |-> "open"])
    /\ UNCHANGED <<UserTables, backend, errors, inst, orders, nextOrderId, stock, members, nextMemberId, reqs>>

\* join_group(request, group_id)
join_group(user, g, request) ==
    /\ g \in GroupIds
    /\ IF NotJoinable(groups[g])
       THEN UNCHANGED <<groups, members, nextMemberId>>
       ELSE IF request.method = "POST" /\ request.form.valid
       THEN /\ nextMemberId <= MaxMembers
            /\ groups' = [groups EXCEPT
                  ![g] = JoinUpdate(@, request.form.quantity_committed)]
            /\ members' = members \cup
                  {NewMember(nextMemberId, g, user, request.form.quantity_committed)}
            /\ nextMemberId' = nextMemberId + 1
       ELSE UNCHANGED <<groups, members, nextMemberId>>
    /\ UNCHANGED <<UserTables, backend, errors, inst, orders, nextOrderId, stock, reqs>>

\* remove_member(request, member_id)
remove_member(user, member) ==
    /\ member \in members
    /\ IF NotInitiator(user, groups[member.group])
       THEN UNCHANGED <<groups, members>>
       ELSE /\ groups' = [groups EXCEPT ![member.group] = RemoveUpdate(@, member)]
            /\ members' = members \ {member}
    /\ UNCHANGED <<UserTables, backend, errors, inst, orders, nextOrderId, stock, nextMemberId, reqs>>

\* A variant that lets an empty group through (not the code's rule).
EmptyGroupNever(group) == FALSE

\* `if group.current_quantity == 0` of place_group_order
EmptyGroup(group) == group.current_quantity = 0

\* place_group_order(request, group_id), with the Order table holding at most
\* max_orders rows
PlaceGroupOrder(user, g, max_orders) ==
    /\ g \in GroupIds
    /\ LET group == groups[g]
           total == group.current_quantity * group.discount_price
       IN  IF NotInitiator(user, group) \/ EmptyGroup(group)
           THEN UNCHANGED <<groups, orders, nextOrderId, errors>>
           ELSE IF group.target_crop # None
           THEN /\ nextOrderId <= max_orders
                /\ \E row \in OrderSave(NewOrder(user, farmer(group.target_crop),
                                                 group.current_quantity, total,
                                                 "cash", group.delivery_location)) :
                      orders' = PutOrder(nextOrderId, row)
                /\ nextOrderId' = nextOrderId + 1
                /\ groups' = [groups EXCEPT ![g].status = "completed"]
                /\ UNCHANGED errors
           \* target_input: `seller.supplier.phone_number` raises AttributeError
           \* (a CustomUser has no attribute supplier) before anything is written
           ELSE IF group.target_input # None
           THEN /\ Raise("place_group_order: AttributeError")
                /\ UNCHANGED <<groups, orders, nextOrderId>>
           \* no target at all: the view redirects.
           ELSE UNCHANGED <<groups, orders, nextOrderId, errors>>
    /\ UNCHANGED <<UserTables, backend, inst, stock, members, nextMemberId, reqs>>

\* place_group_order(request, group_id)
place_group_order(user, g) == PlaceGroupOrder(user, g, MaxOrders)

GroupCallers == {"buyer1", "buyer2"}
Initiators == {"buyer1"}

\* The group views are run on the default engine; the stored amounts of both
\* engines are compared in SpecOrder.
InitGroup ==
    /\ inst = [obj |-> NewInstance(DefaultWeightKg, DefaultDistanceKm), saves |-> 0]
    /\ InitRest
    /\ backend = "sqlite"

NextGroup ==
    \/ \E u \in Initiators, c \in Crops, t \in TargetQuantities,
          p \in DiscountPrices, l \in DeliveryLocations :
          create_group(u, "crop", c, t, p, l)
    \/ \E u \in Initiators, i \in InputProducts, t \in TargetQuantities,
          p \in DiscountPrices, l \in DeliveryLocations :
          create_group(u, "input", i, t, p, l)
    \/ \E u \in GroupCallers, g \in GroupIds, r \in JoinRequests :
          join_group(u, g, r)
    \/ \E u \in GroupCallers, m \in members : remove_member(u, m)
    \/ \E u \in GroupCallers, g \in GroupIds : place_group_order(u, g)

SpecGroup == InitGroup /\ [][NextGroup]_vars


\* C4: with requests run one at a time on groups created with
\* current_quantity 0, after any sequence of join_group and remove_member
\* requests current_quantity is the sum of quantity_committed over the
\* GroupMember rows that reference the group.
C4_QuantityIsSumOfMembers ==
    \A g \in GroupIds :
        groups[g].current_quantity = SumCommitted(MembersOf(g))

\* Two joins and one removal have run: one member of 45 or 60 is left.
C4_Witness ==
    /\ nextMemberId = 3
    /\ Cardinality(members) = 1
    /\ \E g \in GroupIds : groups[g].current_quantity > 0

\* C8: a join request on a GroupBuy whose status is not open (confirmed,
\* completed or expired) leaves current_quantity and status unchanged and
\* creates no GroupMember.
C8_JoinClosedGroupFails ==
    [][\A g \in GroupIds :
          groups[g].status # "open" =>
              \/ UNCHANGED <<groups, members, nextMemberId>>
              \/ \A u \in GroupCallers, r \in JoinRequests : ~join_group(u, g, r)]_vars

\* A confirmed group below its target (a member was removed after the target
\* was met) and a completed group: joins on them are turned away.
C8_Witness ==
    \E g \in GroupIds :
        /\ groups[g].status = "confirmed"
        /\ groups[g].current_quantity < groups[g].target_quantity
        /\ nextMemberId <= MaxMembers

\* C9: a successful join of quantity q on an open GroupBuy increases
\* current_quantity by exactly q, creates exactly one GroupMember for the
\* caller with quantity_committed = q, and sets status to confirmed if and
\* only if the new current_quantity >= target_quantity (overshoot allowed):
\* from target 100 and current 0, join(60) gives 60 and open, then join(45)
\* gives 105 and confirmed.
C9_JoinEffect ==
    [][\A u \in GroupCallers, g \in GroupIds, r \in JoinRequests :
          (/\ groups[g].status = "open"
           /\ r.method = "POST"
           /\ r.form.valid
           /\ join_group(u, g, r))
          => LET q == r.form.quantity_committed
                 old == groups[g]
                 new == groups'[g]
             IN  /\ new.current_quantity = old.current_quantity + q
                 /\ members \subseteq members'
                 /\ Cardinality(members' \ members) = 1
                 /\ \A m \in members' \ members :
                       /\ m.user = u
                       /\ m.group = g
                       /\ m.quantity_committed = q
                 /\ new.status = "confirmed"
                       <=> new.current_quantity >= old.target_quantity
                 /\ new.status \in {"open", "confirmed"}
                 /\ (old.target_quantity = 100 /\ old.current_quantity = 0 /\ q = 60)
                       => (new.current_quantity = 60 /\ new.status = "open")
                 /\ (old.target_quantity = 100 /\ old.current_quantity = 60 /\ q = 45)
                       => (new.current_quantity = 105 /\ new.status = "confirmed")]_vars

\* The scenario's end: target 100, joins of 60 and then 45, confirmed at 105.
C9_Witness ==
    \E g \in GroupIds :
        /\ groups[g].target_quantity = 100
        /\ groups[g].current_quantity = 105
        /\ groups[g].status = "confirmed"
        /\ \E m1, m2 \in MembersOf(g) :
              /\ m1.id = 1 /\ m1.quantity_committed = 60
              /\ m2.id = 2 /\ m2.quantity_committed = 45

\* C10: remove_member by the group's initiator decreases current_quantity by
\* exactly the removed member's quantity_committed, deletes that GroupMember
\* and no other, and leaves the group's status, target_quantity and
\* discount_price unchanged; by anyone else it changes nothing.
C10_RemoveEffect ==
    [][\A u \in GroupCallers, m \in members :
          remove_member(u, m)
          => LET old == groups[m.group]
                 new == groups'[m.group]
             IN  IF u = old.initiator
                 THEN /\ new.current_quantity
                            = old.current_quantity - m.quantity_committed
                      /\ members' = members \ {m}
                      /\ new.status = old.status
                      /\ new.target_quantity = old.target_quantity
                      /\ new.discount_price = old.discount_price
                      /\ \A g \in GroupIds \ {m.group} : groups'[g] = groups[g]
                 ELSE UNCHANGED <<groups, members>>]_vars

\* A member was removed from a confirmed group, which is now below its target
\* and still confirmed, with another member left in place.
C10_Witness ==
    \E g \in GroupIds :
        /\ groups[g].status = "confirmed"
        /\ groups[g].current_quantity < groups[g].target_quantity
        /\ Cardinality(MembersOf(g)) = 1
        /\ nextMemberId = 3


(***************************************************************************)
(* SpecGroupConc: join_group and remove_member requests on one GroupBuy,   *)
(* served by several workers.  No view runs in a transaction and no row is *)
(* locked (settings.py sets neither ATOMIC_REQUESTS nor any isolation      *)
(* option), so each query of a view is a step of its own and the steps of  *)
(* different requests interleave.                                          *)
(***************************************************************************)

NumWorkers == 2

Workers == 1 .. NumWorkers

Idle == [pc |-> "idle"]

\* A variant that increments the stored row in place, as an F() expression
\* would (not what the code does).
SaveIncrement(stored, instance, delta) ==
    [stored EXCEPT !.current_quantity = @ + delta]

\* The row `group.save()` writes (every column, from the instance in memory),
\* given the row stored at that moment and the instance the view has changed.
SaveRow(stored, instance, delta) == instance

\* join_group: group = get_object_or_404(GroupBuy, id=group_id), the status
\* check and the form's validation.
JoinRead(w, user, g, request) ==
    /\ reqs[w] = Idle
    /\ g \in GroupIds
    /\ nextMemberId + Cardinality({v \in Workers : reqs[v].pc
                                      \in {"join_save", "join_member"}}) <= MaxMembers
    /\ IF NotJoinable(groups[g]) \/ request.method # "POST" \/ ~request.form.valid
       THEN UNCHANGED reqs
       ELSE reqs' = [reqs EXCEPT ![w] =
                [pc |-> "join_save", user |-> user, g |-> g, group |-> groups[g],
                 quantity |-> request.form.quantity_committed]]
    /\ UNCHANGED <<UserTables, backend, errors, inst, orders, nextOrderId, stock, groups, members, nextMemberId>>

\* join_group: the update of the instance and group.save()
JoinSaveGroup(w) ==
    /\ reqs[w].pc = "join_save"
    /\ LET r == reqs[w]
           instance == JoinUpdate(r.group, r.quantity)
       IN  /\ groups' = [groups EXCEPT ![r.g] = SaveRow(@, instance, r.quantity)]
           /\ reqs' = [reqs EXCEPT ![w] = [r EXCEPT !.pc = "join_member",
                                                    !.group = instance]]
    /\ UNCHANGED <<UserTables, backend, errors, inst, orders, nextOrderId, stock, members, nextMemberId>>

\* join_group: member.save()
JoinSaveMember(w) ==
    /\ reqs[w].pc = "join_member"
    /\ LET r == reqs[w]
       IN  members' = members \cup {NewMember(nextMemberId, r.g, r.user, r.quantity)}
    /\ nextMemberId' = nextMemberId + 1
    /\ reqs' = [reqs EXCEPT ![w] = Idle]
    /\ UNCHANGED <<UserTables, backend, errors, inst, orders, nextOrderId, stock, groups>>

\* remove_member: member = get_object_or_404(GroupMember, id=member_id)
RemoveRead(w, user, member) ==
    /\ reqs[w] = Idle
    /\ member \in members
    /\ reqs' = [reqs EXCEPT ![w] =
            [pc |-> "remove_group", user |-> user, member |-> member]]
    /\ UNCHANGED <<UserTables, backend, errors, inst, orders, nextOrderId, stock, groups, members, nextMemberId>>

\* remove_member: group = member.group (a query of its own) and the
\* initiator check
RemoveReadGroup(w) ==
    /\ reqs[w].pc = "remove_group"
    /\ LET r == reqs[w]
           group == groups[r.member.group]
       IN  IF NotInitiator(r.user, group)
           THEN reqs' = [reqs EXCEPT ![w] = Idle]
           ELSE reqs' = [reqs EXCEPT ![w] =
                    [pc |-> "remove_save", user |-> r.user, member |-> r.member,
                     group |-> group]]
    /\ UNCHANGED <<UserTables, backend, errors, inst, orders, nextOrderId, stock, groups, members, nextMemberId>>

\* remove_member: the update of the instance and group.save()
RemoveSaveGroup(w) ==
    /\ reqs[w].pc = "remove_save"
    /\ LET r == reqs[w]
           instance == RemoveUpdate(r.group, r.member)
       IN  /\ groups' = [groups EXCEPT ![r.member.group] =
                    SaveRow(@, instance, 0 - r.member.quantity_committed)]
           /\ reqs' = [reqs EXCEPT ![w] = [r EXCEPT !.pc = "remove_delete",
                                                    !.group = instance]]
    /\ UNCHANGED <<UserTables, backend, errors, inst, orders, nextOrderId, stock, members, nextMemberId>>

\* remove_member: member.delete() (DELETE ... WHERE id = member.id; a row
\* already deleted by another request makes it delete nothing)
RemoveDelete(w) ==
    /\ reqs[w].pc = "remove_delete"
    /\ members' = members \ {reqs[w].member}
    /\ reqs' = [reqs EXCEPT ![w] = Idle]
    /\ UNCHANGED <<UserTables, backend, errors, inst, orders, nextOrderId, stock, groups, nextMemberId>>

\* One GroupBuy, as create_group leaves it, and every worker idle.
InitGroupConc ==
    /\ inst = [obj |-> NewInstance(DefaultWeightKg, DefaultDistanceKm), saves |-> 0]
    /\ orders = <<>>
    /\ nextOrderId = 1
    /\ stock = <<>>
    /\ \E u \in Initiators, c \in Crops, t \in TargetQuantities,
          p \in DiscountPrices, l \in DeliveryLocations :
          groups = <<[initiator |-> u, target_crop |-> c, target_input |-> None,
                      delivery_location |-> l, target_quantity |-> t,
                      current_quantity |-> 0, discount_price |-> p,
                      status |-> "open"]>>
    /\ members = {}
    /\ nextMemberId = 1
    /\ reqs = [w \in Workers |-> Idle]
    /\ errors = {}
    /\ backend \in Backends
    /\ NoUsers

\* The users whose requests race: one joiner, and the initiator removing.
ConcJoiners == {"buyer2"}
ConcRemovers == {"buyer1"}

NextGroupConc ==
    \/ \E w \in Workers, u \in ConcJoiners, g \in GroupIds, r \in JoinRequests :
          JoinRead(w, u, g, r)
    \/ \E w \in Workers : JoinSaveGroup(w)
    \/ \E w \in Workers : JoinSaveMember(w)
    \/ \E w \in Workers, u \in ConcRemovers, m \in members : RemoveRead(w, u, m)
    \/ \E w \in Workers : RemoveReadGroup(w)
    \/ \E w \in Workers : RemoveSaveGroup(w)
    \/ \E w \in Workers : RemoveDelete(w)

SpecGroupConc == InitGroupConc /\ [][NextGroupConc]_vars

AllIdle == \A w \in Workers : reqs[w] = Idle

\* Concurrent join_group requests alone.
NextJoinConc ==
    \/ \E w \in Workers, u \in ConcJoiners, g \in GroupIds, r \in JoinRequests :
          JoinRead(w, u, g, r)
    \/ \E w \in Workers : JoinSaveGroup(w)
    \/ \E w \in Workers : JoinSaveMember(w)

SpecJoinConc == InitGroupConc /\ [][NextJoinConc]_vars

\* The step in which worker w's join request saves group g.
IsJoinSave(w, g) ==
    /\ reqs[w].pc = "join_save"
    /\ reqs[w].g = g
    /\ reqs'[w].pc = "join_member"

\* C5: concurrent joins on one open GroupBuy are not serialized: a join
\* writes back the current_quantity it read plus its own quantity, whatever
\* the row holds by then, so of two joins that both passed the status check
\* one increment is lost and current_quantity differs from the sum of the
\* members' quantities (the witness).
C5_JoinWritesBackWhatItRead ==
    [][\A w \in Workers, g \in GroupIds :
          IsJoinSave(w, g)
              => groups'[g].current_quantity
                    = reqs[w].group.current_quantity + reqs[w].quantity]_vars

\* Both joins are over, both members exist, and one increment is lost.
C5_Witness ==
    /\ AllIdle
    /\ \E g \in GroupIds :
          /\ Cardinality(MembersOf(g)) = 2
          /\ groups[g].current_quantity < SumCommitted(MembersOf(g))
          /\ \E m \in MembersOf(g) :
                groups[g].current_quantity = m.quantity_committed

\* C6: a GroupBuy's status changes to confirmed only in a join step, and only
\* when the current_quantity written by that step is >= target_quantity; a
\* join whose resulting current_quantity is below target_quantity leaves the
\* status open.
C6_ConfirmedOnlyByJoinAtTarget ==
    [][\A g \in GroupIds :
          /\ (groups[g].status # "confirmed" /\ groups'[g].status = "confirmed")
                => /\ \E w \in Workers : IsJoinSave(w, g)
                   /\ groups'[g].current_quantity >= groups'[g].target_quantity
          /\ \A w \in Workers :
                (/\ IsJoinSave(w, g)
                 /\ groups'[g].current_quantity < groups'[g].target_quantity)
                    => groups'[g].status = "open"]_vars

\* C7: once a GroupBuy's stored status is confirmed, no join_group or
\* remove_member request sets it back to open, in any interleaving.
C7_ConfirmedNeverReopens ==
    [][\A g \in GroupIds :
          groups[g].status = "confirmed" => groups'[g].status # "open"]_vars


(***************************************************************************)
(* SpecOrder: the order views, each request run to completion, on a crop   *)
(* in stock and a GroupBuy that has one member.                            *)
(***************************************************************************)

InitialStock == 2

Methods == {"GET", "POST"}
PayMethods == {"cash", "telebirr", "bank"}
CheckoutQuantities == {-1, 0, 1, InitialStock + 1}
EditQuantities == {0, 2}
\* The new_status of the URL is any string: the five choices and one outside.
NewStatuses ==
    {"payment_review", "pending", "assigned", "picked_up", "delivered", "cancelled"}
EnteredCodes == {Str(n) : n \in RandInts}
PostedDriverNames == {"", "Kebede"}
PostedDriverPhone == "0922000000"

Buyers == {"buyer1", "buyer2"}
Drivers == {"driver1", "driver2"}

InitOrder ==
    /\ inst = [obj |-> NewInstance(DefaultWeightKg, DefaultDistanceKm), saves |-> 0]
    /\ orders = <<>>
    /\ nextOrderId = 1
    /\ stock = [c \in Crops |-> InitialStock]
    /\ groups = <<[initiator |-> "buyer1", target_crop |-> "crop1",
                   target_input |-> None, delivery_location |-> "Bole Atlas",
                   target_quantity |-> 100, current_quantity |-> 60,
                   discount_price |-> 250, status |-> "open"]>>
    /\ members = {NewMember(1, 1, "buyer2", 60)}
    /\ nextMemberId = 2
    /\ reqs = <<>>
    /\ errors = {}
    /\ backend \in Backends
    /\ NoUsers

NextOrder ==
    \/ \E c \in Crops, q \in CheckoutQuantities, p \in PayMethods :
          checkout("buyer1", c, q, p)
    \/ \E u \in Buyers, g \in GroupIds : place_group_order(u, g)
    \/ \E u \in {"driver1", "buyer2"}, id \in OrderIds, m \in Methods,
          n \in PostedDriverNames : order_detail(u, id, m, n, PostedDriverPhone)
    \/ \E u \in Buyers, id \in OrderIds, n \in EditQuantities : edit_order(u, id, n)
    \/ \E u \in Buyers, id \in OrderIds : cancel_order(u, id)
    \/ \E u \in {"buyer1"}, id \in OrderIds, m \in Methods, f \in BOOLEAN :
          bank_transfer(u, id, m, f)
    \/ \E u \in {"farmer1", "buyer1"}, id \in OrderIds : approve_payment(u, id)
    \/ \E u \in Buyers, id \in OrderIds, m \in Methods : telebirr_pay(u, id, m)
    \/ \E u \in Drivers, id \in OrderIds : accept_job(u, id)
    \/ \E u \in {"driver1", "buyer2"}, id \in OrderIds, st \in NewStatuses :
          update_status(u, id, st)
    \/ \E u \in Drivers, id \in OrderIds, m \in Methods, e \in EnteredCodes :
          verify_delivery(u, id, m, e)

SpecOrder == InitOrder /\ [][NextOrder]_vars

\* A string of exactly four decimal digits.
IsFourDigits(code) ==
    /\ Len(code) = 4
    /\ \A i \in 1 .. 4 : code[i] \in 0 .. 9

\* C2: every persisted Order has dispatch_method equal to the classification
\* of its current weight_kg and distance_km and never PENDING, after its
\* creation (checkout, place_group_order) and after every operation that
\* persists it; persisting it again with weight_kg and distance_km unchanged
\* leaves dispatch_method the same.
C2_DispatchFollowsInputs ==
    /\ [](\A id \in OrderIds :
            /\ orders[id].dispatch_method # "PENDING"
            /\ orders[id].dispatch_method =
                  IF orders[id].weight_kg > 100 \/ orders[id].distance_km > 50
                  THEN "CDN" ELSE "DEDICATED")
    /\ [][\A id \in OrderIds \cap DOMAIN orders' :
            (/\ orders'[id].weight_kg = orders[id].weight_kg
             /\ orders'[id].distance_km = orders[id].distance_km)
                => orders'[id].dispatch_method = orders[id].dispatch_method]_vars

\* An order that was edited, paid, assigned and delivered.
C2_Witness ==
    \E id \in OrderIds :
        /\ orders[id].quantity = 2
        /\ orders[id].is_payment_verified
        /\ orders[id].status = "delivered"
        /\ orders[id].dispatch_method = "DEDICATED"

\* C3: pod_code and delivery_pin of an Order are both set at its first
\* persist, each a 4-digit numeric string, and keep the same value through
\* every later operation on the order until it is deleted.
C3_CodesSetOnceAndKept ==
    /\ [](\A id \in OrderIds :
            /\ IsFourDigits(orders[id].pod_code)
            /\ IsFourDigits(orders[id].delivery_pin))
    /\ [][\A id \in OrderIds \cap DOMAIN orders' :
            /\ orders'[id].pod_code = orders[id].pod_code
            /\ orders'[id].delivery_pin = orders[id].delivery_pin]_vars

\* A group order with different codes, taken by a driver and delivered with
\* the delivery_pin.
C3_Witness ==
    \E id \in OrderIds :
        /\ orders[id].quantity = 60
        /\ orders[id].pod_code = Str(1000)
        /\ orders[id].delivery_pin = Str(9999)
        /\ orders[id].driver = "driver2"
        /\ orders[id].payment_proof
        /\ orders[id].status = "delivered"

(***************************************************************************)
(* Placing the group order                                                 *)
(***************************************************************************)

\* C11: place_group_order by a caller who is not the group's initiator, or on
\* a group whose current_quantity is 0, creates no Order and leaves the
\* group's status and current_quantity (and everything else stored) as they
\* were.
C11_PlaceOrderRefused ==
    [][\A g \in GroupIds :
          \/ UNCHANGED <<orders, nextOrderId, groups, members>>
          \/ \A u \in GroupCallers :
                (u # groups[g].initiator \/ groups[g].current_quantity = 0)
                    => ~place_group_order(u, g)]_vars

\* A group that was joined up to its target and then emptied by the
\* initiator: confirmed with current_quantity 0, and no order placed.
C11_Witness ==
    /\ orders = <<>>
    /\ \E g \in GroupIds :
          /\ groups[g].status = "confirmed"
          /\ groups[g].current_quantity = 0
          /\ groups[g].target_crop # None
          /\ MembersOf(g) = {}

\* C12: place_group_order by the initiator on a group with
\* current_quantity > 0 and a target product (a crop or an input product)
\* creates exactly one new Order with status pending, quantity =
\* current_quantity, total_price = current_quantity * discount_price,
\* commission_fee = 5% of that total (to the cent), seller_earnings = total -
\* commission, seller = the product's owner and delivery_location = the
\* group's delivery_location, and sets the group's status to completed.
C12_PlaceOrderCreatesOrder ==
    [][\A g \in GroupIds, u \in GroupCallers :
          (/\ u = groups[g].initiator
           /\ groups[g].current_quantity > 0
           /\ (groups[g].target_crop # None \/ groups[g].target_input # None)
           /\ place_group_order(u, g))
          => /\ DOMAIN orders' = OrderIds \cup {nextOrderId}
             /\ nextOrderId \notin OrderIds
             /\ \A id \in OrderIds : orders'[id] = orders[id]
             /\ LET group == groups[g]
                    order == orders'[nextOrderId]
                    total == group.current_quantity * group.discount_price
                IN  /\ order.status = "pending"
                    /\ order.buyer = u
                    /\ order.quantity = group.current_quantity
                    /\ order.total_price = total
                    /\ 100 * order.commission_fee - 5 * total \in -50 .. 50
                    /\ order.seller_earnings = total - order.commission_fee
                    /\ order.seller = (IF group.target_crop # None
                                       THEN farmer(group.target_crop)
                                       ELSE supplier(group.target_input))
                    /\ order.delivery_location = group.delivery_location
             /\ groups' = [groups EXCEPT ![g].status = "completed"]]_vars

(***************************************************************************)
(* GroupBuy.progress_percent                                               *)
(***************************************************************************)

\* A variant without the cap at 100 (not the code's rule).
ProgressUncapped(group) ==
    IF group.target_quantity > 0
    THEN [num |-> group.current_quantity * 100, den |-> group.target_quantity]
    ELSE [num |-> 0, den |-> 1]

\* GroupBuy.progress_percent, as the fraction num/den with den > 0 (the code
\* computes it in floating point):
\*   if self.target_quantity > 0:
\*       percent = (self.current_quantity / self.target_quantity) * 100
\*       return min(percent, 100)
\*   return 0
progress_percent(group) ==
    IF group.target_quantity > 0
    THEN LET num == group.current_quantity * 100
             den == group.target_quantity
         IN  IF num <= 100 * den THEN [num |-> num, den |-> den]
                                 ELSE [num |-> 100, den |-> 1]
    ELSE [num |-> 0, den |-> 1]

\* The targets CreateGroupBuyForm accepts (any integer) and the quantities
\* JoinGroupForm accepts (any integer), around the cases of progress_percent.
ProgressTargets == {-1, 0, 1, 50, 100, 200}
ProgressQuantities == {-1, 1, 45, 60}

ProgressRequests ==
    {[method |-> "POST", form |-> [valid |-> TRUE, quantity_committed |-> q]] :
        q \in ProgressQuantities}

NextProgress ==
    \/ \E u \in Initiators, c \in Crops, t \in ProgressTargets,
          p \in DiscountPrices, l \in DeliveryLocations :
          create_group(u, "crop", c, t, p, l)
    \/ \E u \in ConcJoiners, g \in GroupIds, r \in ProgressRequests :
          join_group(u, g, r)
    \/ \E u \in Initiators, m \in members : remove_member(u, m)

SpecProgress == InitGroup /\ [][NextProgress]_vars

\* C13: progress_percent of a GroupBuy is 0 when target_quantity <= 0 and
\* min(100, current_quantity / target_quantity * 100) otherwise; for a fixed
\* positive target it is monotonically non-decreasing in current_quantity
\* and never exceeds 100.
C13_ProgressPercent ==
    /\ [](\A g \in GroupIds :
            LET cq == groups[g].current_quantity
                tq == groups[g].target_quantity
                p == progress_percent(groups[g])
            IN  /\ p.den > 0
                /\ tq <= 0 => p.num = 0
                /\ (tq > 0 /\ cq >= tq) => p.num = 100 * p.den
                /\ (tq > 0 /\ cq < tq) => p.num * tq = cq * 100 * p.den
                /\ p.num <= 100 * p.den)
    /\ [][\A g \in GroupIds \cap DOMAIN groups' :
            LET p == progress_percent(groups[g])
                q == progress_percent(groups'[g])
            IN  (/\ groups'[g].target_quantity = groups[g].target_quantity
                 /\ groups[g].target_quantity > 0
                 /\ groups'[g].current_quantity >= groups[g].current_quantity)
                    => q.num * p.den >= p.num * q.den]_vars

\* A group joined past its positive target (45 then 60 against 50): capped.
C13_Witness ==
    \E g \in GroupIds :
        /\ groups[g].target_quantity = 50
        /\ groups[g].current_quantity = 105
        /\ progress_percent(groups[g]) = [num |-> 100, den |-> 1]

(***************************************************************************)
(* Amounts of an order                                                     *)
(***************************************************************************)

\* C14: every stored Order (made by checkout or place_group_order, edited or
\* not) has commission_fee equal to 5% of its total_price, to the cent, and
\* seller_earnings = total_price - commission_fee, so that commission_fee +
\* seller_earnings = total_price, the amounts counted in whole cents.
C14_CommissionSplit ==
    \A id \in OrderIds :
        /\ 100 * orders[id].commission_fee - 5 * orders[id].total_price
              \in -50 .. 50
        /\ orders[id].seller_earnings
              = orders[id].total_price - orders[id].commission_fee
        /\ orders[id].commission_fee + orders[id].seller_earnings
              = orders[id].total_price

\* C15: edit_order with new quantity n >= 1 on a pending order sets
\* quantity to n and total_price to n * (previous total_price / previous
\* quantity), so that total_price / quantity is the same before and after,
\* and recomputes commission_fee and seller_earnings from the new total (to
\* the cent); and no order that the operations produce has quantity 0, the
\* number edit_order divides by.
C15_EditKeepsUnitPrice ==
    /\ [](\A id \in OrderIds : orders[id].quantity # 0)
    /\ [][\A id \in OrderIds, n \in EditQuantities :
            (/\ n >= 1
             /\ orders[id].status = "pending"
             /\ edit_order(orders[id].buyer, id, n))
            => /\ id \in DOMAIN orders'
               /\ orders'[id].quantity = n
               /\ orders'[id].total_price * orders[id].quantity
                     = n * orders[id].total_price
               /\ 100 * orders'[id].commission_fee
                     - 5 * orders'[id].total_price \in -50 .. 50
               /\ 100 * orders'[id].seller_earnings
                     - 95 * orders'[id].total_price \in -50 .. 50]_vars

(***************************************************************************)
(* The life of an order                                                    *)
(***************************************************************************)

\* C16: an Order is deleted only by a cancel_order request of its buyer while
\* its status is pending; a cancel request on an order in any other status
\* leaves the order in place and unchanged, and no other operation deletes
\* an order.
C16_DeletedOnlyByCancelWhilePending ==
    [][\A id \in OrderIds :
          /\ id \notin DOMAIN orders'
                => /\ orders[id].status = "pending"
                   /\ cancel_order(orders[id].buyer, id)
          /\ orders[id].status # "pending"
                => \/ (id \in DOMAIN orders' /\ orders'[id] = orders[id])
                   \/ \A u \in Buyers : ~cancel_order(u, id)]_vars

\* An order was made and then cancelled: the table is empty again (and the
\* stock it took is not given back).
C16_Witness ==
    /\ nextOrderId > 1
    /\ OrderIds = {}
    /\ \E c \in Crops : stock[c] < InitialStock

\* C17: in every reachable state the status of every Order is one of the
\* five values of STATUS_CHOICES (payment_review, pending, assigned,
\* picked_up, delivered), whatever checkout, payment, accept_job,
\* update_status (with any new_status) and verify_delivery requests were made.
C17_StatusInChoices ==
    \A id \in OrderIds :
        orders[id].status \in
            {"payment_review", "pending", "assigned", "picked_up", "delivered"}

(***************************************************************************)
(* checkout, with requests interleaved between their queries               *)
(***************************************************************************)

\* The orders racing checkouts may create in all.
MaxRacingOrders == 2

\* The quantities posted: negative, part of the stock, all of it, too much.
RacingQuantities == {-1, 1, InitialStock, InitialStock + 1}

\* checkout: item = get_object_or_404(Crop, id=item_id) and the stock check
CheckoutRead(w, user, crop, qty, pay_method) ==
    /\ reqs[w] = Idle
    /\ crop \in DOMAIN stock
    /\ nextOrderId + Cardinality({v \in Workers : reqs[v].pc = "checkout_create"})
          <= MaxRacingOrders
    /\ IF InsufficientStock(qty, stock[crop])
       THEN UNCHANGED reqs
       ELSE reqs' = [reqs EXCEPT ![w] =
                [pc |-> "checkout_create", user |-> user, crop |-> crop,
                 qty |-> qty, pay_method |-> pay_method,
                 stock_quantity |-> stock[crop]]]
    /\ UNCHANGED <<UserTables, backend, errors, inst, orders, nextOrderId, stock, groups, members, nextMemberId>>

\* checkout: Order.objects.create(...)
CheckoutCreate(w) ==
    /\ reqs[w].pc = "checkout_create"
    /\ LET r == reqs[w]
       IN  \E row \in OrderSave(NewOrder(r.user, farmer(r.crop), r.qty,
                                         price_per_kg(r.crop) * r.qty,
                                         r.pay_method, user_location(r.user))) :
              orders' = PutOrder(nextOrderId, row)
    /\ nextOrderId' = nextOrderId + 1
    /\ reqs' = [reqs EXCEPT ![w].pc = "checkout_save"]
    /\ UNCHANGED <<UserTables, backend, errors, inst, stock, groups, members, nextMemberId>>

\* checkout: item.stock_quantity -= qty; item.save() (every column of the
\* item as it was read)
CheckoutSaveStock(w) ==
    /\ reqs[w].pc = "checkout_save"
    /\ stock' = [stock EXCEPT ![reqs[w].crop] =
                    reqs[w].stock_quantity - reqs[w].qty]
    /\ reqs' = [reqs EXCEPT ![w] = Idle]
    /\ UNCHANGED <<UserTables, backend, errors, inst, orders, nextOrderId, groups, members, nextMemberId>>

\* The buyer whose checkouts race (two tabs, or a form sent twice).
RacingBuyers == {"buyer2"}

InitCheckoutConc ==
    /\ inst = [obj |-> NewInstance(DefaultWeightKg, DefaultDistanceKm), saves |-> 0]
    /\ orders = <<>>
    /\ nextOrderId = 1
    /\ stock = [c \in Crops |-> InitialStock]
    /\ groups = <<>>
    /\ members = {}
    /\ nextMemberId = 1
    /\ reqs = [w \in Workers |-> Idle]
    /\ errors = {}
    /\ backend \in Backends
    /\ NoUsers

NextCheckoutConc ==
    \/ \E w \in Workers, u \in RacingBuyers, c \in Crops, q \in RacingQuantities :
          CheckoutRead(w, u, c, q, "cash")
    \/ \E w \in Workers : CheckoutCreate(w)
    \/ \E w \in Workers : CheckoutSaveStock(w)

SpecCheckoutConc == InitCheckoutConc /\ [][NextCheckoutConc]_vars

\* C18: a checkout whose quantity exceeds the item's stock_quantity creates
\* no Order and leaves stock_quantity unchanged; a successful checkout of
\* quantity q creates an order of at most the stock it found and reduces
\* stock_quantity by exactly q; and the stock_quantity of an item that starts
\* non-negative is never negative -- all of it with checkouts of the same
\* item interleaved as they may.
C18_StockNeverNegative ==
    /\ [](\A c \in DOMAIN stock : stock[c] >= 0)
    /\ [][\A w \in Workers :
            /\ \A u \in RacingBuyers, c \in Crops, q \in RacingQuantities :
                  (q > stock[c] /\ CheckoutRead(w, u, c, q, "cash"))
                      => UNCHANGED <<orders, nextOrderId, stock, reqs>>
            /\ CheckoutCreate(w)
                  => /\ orders'[nextOrderId].quantity <= reqs[w].stock_quantity
                     /\ UNCHANGED stock
            /\ CheckoutSaveStock(w)
                  => stock'[reqs[w].crop] = stock[reqs[w].crop] - reqs[w].qty]_vars

\* C19: edit_order leaves the order completely unchanged (quantity,
\* total_price, commission_fee, seller_earnings, status) when the order's
\* status is not pending or when the requested quantity is less than 1, and
\* when the caller is not the order's buyer.
C19_EditRefused ==
    [][\A id \in OrderIds :
          \/ UNCHANGED orders
          \/ \A u \in Buyers, n \in EditQuantities :
                (\/ orders[id].status # "pending"
                 \/ n < 1
                 \/ u # orders[id].buyer)
                    => ~edit_order(u, id, n)]_vars

\* An order taken by a driver with the quantity and amounts it was made
\* with, and an edit of it to 2 refused.
C19_Witness ==
    \E id \in OrderIds :
        /\ orders[id].status = "assigned"
        /\ orders[id].driver # None
        /\ orders[id].quantity = 1
        /\ orders[id].total_price = price_per_kg("crop1")

\* C20: accept_job succeeds only on an order whose status is pending, and
\* then sets driver to the caller and status to assigned; on an order in any
\* other status it leaves driver, driver_name, driver_phone and status (and
\* the rest of the order) unchanged.
C20_AcceptJob ==
    [][\A id \in OrderIds, u \in Drivers :
          accept_job(u, id)
              => /\ id \in DOMAIN orders'
                 /\ IF orders[id].status = "pending"
                    THEN /\ orders'[id].driver = u
                         /\ orders'[id].status = "assigned"
                    ELSE /\ orders'[id].driver = orders[id].driver
                         /\ orders'[id].driver_name = orders[id].driver_name
                         /\ orders'[id].driver_phone = orders[id].driver_phone
                         /\ orders'[id].status = orders[id].status]_vars

\* An order accepted by driver1 (accept_job stores the first name only).
C20_Witness ==
    \E id \in OrderIds :
        /\ orders[id].status = "assigned"
        /\ orders[id].driver = "driver1"
        /\ orders[id].driver_name = first_name("driver1")


(***************************************************************************)
(* Delivery                                                                *)
(***************************************************************************)

\* C21: verify_delivery sets an order's status to delivered only when the
\* caller is the order's assigned driver, the request is a POST and the
\* entered code equals the order's delivery_pin, and then it does set it;
\* when the caller is not the assigned driver or the code does not match, the
\* order's status is unchanged.
C21_VerifyDelivery ==
    [][\A id \in OrderIds, u \in Drivers, m \in Methods, e \in EnteredCodes :
          verify_delivery(u, id, m, e)
              => /\ id \in DOMAIN orders'
                 /\ IF /\ orders[id].driver = u
                       /\ m = "POST"
                       /\ e = orders[id].delivery_pin
                    THEN orders'[id].status = "delivered"
                    ELSE orders'[id] = orders[id]]_vars

\* An order paid by telebirr, picked up and then delivered by the driver
\* who accepted it.
C21_Witness ==
    \E id \in OrderIds :
        /\ orders[id].payment_method = "telebirr"
        /\ orders[id].is_payment_verified
        /\ orders[id].driver = "driver1"
        /\ orders[id].driver_name = first_name("driver1")
        /\ orders[id].status = "delivered"

\* C22: an order's status becomes delivered only through a verify_delivery
\* request by its assigned driver that supplies the correct delivery_pin; no
\* other operation (update_status, order_detail, accept_job, the payment
\* operations) by any user brings an order to delivered.
C22_DeliveredOnlyByPin ==
    [][\A id \in OrderIds \cap DOMAIN orders' :
          (orders[id].status # "delivered" /\ orders'[id].status = "delivered")
              => \E u \in Drivers :
                    /\ u = orders[id].driver
                    /\ verify_delivery(u, id, "POST", orders[id].delivery_pin)]_vars

\* The place of a status in STATUS_CHOICES (0 for a string outside them).
StatusRank(status) ==
    CASE status = "payment_review" -> 1
      [] status = "pending" -> 2
      [] status = "assigned" -> 3
      [] status = "picked_up" -> 4
      [] status = "delivered" -> 5
      [] OTHER -> 0

\* C23: an order's status only moves forward along payment_review -> pending
\* -> assigned -> picked_up -> delivered: once delivered it never changes
\* again, and an order that has been assigned never returns to pending or
\* payment_review, under any sequence of bank_transfer, approve_payment,
\* telebirr_pay, accept_job, update_status, order_detail and verify_delivery
\* requests.
C23_StatusMovesForward ==
    [][\A id \in OrderIds \cap DOMAIN orders' :
          /\ StatusRank(orders'[id].status) >= StatusRank(orders[id].status)
          /\ orders[id].status = "delivered" => orders'[id].status = "delivered"
          /\ StatusRank(orders[id].status) >= StatusRank("assigned")
                => orders'[id].status \notin {"pending", "payment_review"}]_vars

\* C24: once an order has been assigned to a driver (driver set and status
\* assigned), no later request by a different delivery user replaces that
\* driver: the order's driver changes at most once, from unset to the
\* accepting driver.
C24_DriverSetOnce ==
    [][\A id \in OrderIds \cap DOMAIN orders' :
          orders[id].driver # None => orders'[id].driver = orders[id].driver]_vars

(***************************************************************************)
(* accept_job, with requests interleaved between their queries             *)
(***************************************************************************)

\* accept_job: order = get_object_or_404(Order, id=order_id) and the status
\* check; a request that passes holds the instance it read.
AcceptRead(w, user, id) ==
    /\ reqs[w] = Idle
    /\ id \in OrderIds
    /\ IF JobTaken(orders[id])
       THEN UNCHANGED reqs
       ELSE reqs' = [reqs EXCEPT ![w] =
                [pc |-> "accept_save", user |-> user, id |-> id,
                 order |-> orders[id]]]
    /\ UNCHANGED <<UserTables, backend, errors, inst, orders, nextOrderId, stock, groups,
                   members, nextMemberId>>

\* accept_job: the four assignments and order.save() (every column, from the
\* instance in memory), answered with "Job Accepted!"
AcceptSave(w) ==
    /\ reqs[w].pc = "accept_save"
    /\ LET r == reqs[w]
       IN  SaveOrder(r.id, [r.order EXCEPT !.driver = r.user,
                                           !.driver_name = first_name(r.user),
                                           !.driver_phone = phone_number(r.user),
                                           !.status = "assigned"])
    /\ reqs' = [reqs EXCEPT ![w] = Idle]
    /\ UNCHANGED <<UserTables, backend, errors, inst, stock, groups, members, nextMemberId>>

\* A crop in stock, no order yet, every worker idle.
InitAcceptConc == InitCheckoutConc

\* Orders are made by checkout (run to completion) and drivers race for them.
NextAcceptConc ==
    \/ \E u \in Buyers, c \in Crops, p \in PayMethods : checkout(u, c, 1, p)
    \/ \E w \in Workers, u \in Drivers, id \in OrderIds : AcceptRead(w, u, id)
    \/ \E w \in Workers : AcceptSave(w)

SpecAcceptConc == InitAcceptConc /\ [][NextAcceptConc]_vars

\* C25: when two drivers issue accept_job for the same pending order
\* concurrently, at most one of them succeeds: in no interleaving have two
\* requests both passed the status = pending check for the same order, and no
\* request reports the job accepted by writing over another driver's
\* acceptance.
C25_OneDriverWinsTheJob ==
    /\ [](\A v, w \in Workers :
            (/\ v # w
             /\ reqs[v].pc = "accept_save"
             /\ reqs[w].pc = "accept_save")
                => reqs[v].id # reqs[w].id)
    /\ [][\A w \in Workers :
            AcceptSave(w)
                => /\ orders[reqs[w].id].status = "pending"
                   /\ orders[reqs[w].id].driver = None]_vars

(***************************************************************************)
(* The status of a GroupBuy                                                *)
(***************************************************************************)

\* The interleaved join_group and remove_member requests of SpecGroupConc,
\* and place_group_order requests (each run to completion) among them.
NextGroupStatus ==
    \/ NextGroupConc
    \/ \E u \in GroupCallers, g \in GroupIds : place_group_order(u, g)

SpecGroupStatus == InitGroupConc /\ [][NextGroupStatus]_vars

\* C26: the only status transitions the group-buy operations perform on a
\* GroupBuy are open -> confirmed (by join_group) and any status -> completed
\* (by place_group_order): completed is absorbing, no operation sets expired,
\* and no operation returns a group to open.
C26_GroupStatusTransitions ==
    [][\A g \in GroupIds :
          LET old == groups[g].status
              new == groups'[g].status
          IN  /\ old # new
                    => \/ /\ old = "open"
                          /\ new = "confirmed"
                          /\ \E w \in Workers : IsJoinSave(w, g)
                       \/ /\ new = "completed"
                          /\ \E u \in GroupCallers : place_group_order(u, g)
              /\ old = "completed" => new = "completed"
              /\ new # "expired"
              /\ old # "open" => new # "open"]_vars

(***************************************************************************)
(* SpecGroupOrders: the group views, each request run to completion, with  *)
(* room for more than one Order in the table                               *)
(***************************************************************************)

MaxGroupOrders == 2

NextGroupOrders ==
    \/ \E u \in Initiators, c \in Crops, t \in TargetQuantities,
          p \in DiscountPrices, l \in DeliveryLocations :
          create_group(u, "crop", c, t, p, l)
    \/ \E u \in GroupCallers, g \in GroupIds, r \in JoinRequests :
          join_group(u, g, r)
    \/ \E u \in GroupCallers, m \in members : remove_member(u, m)
    \/ \E u \in GroupCallers, g \in GroupIds :
          PlaceGroupOrder(u, g, MaxGroupOrders)

SpecGroupOrders == InitGroup /\ [][NextGroupOrders]_vars

\* C27: at most one Order is ever created for a given GroupBuy: after
\* place_group_order has succeeded and the group is completed, a further
\* place_group_order request on the same group creates no additional Order,
\* and remove_member no longer changes the group's current_quantity.
C27_OneOrderPerGroup ==
    [][\A g \in GroupIds :
          groups[g].status = "completed"
              => /\ \/ UNCHANGED <<orders, nextOrderId>>
                    \/ \A u \in GroupCallers :
                          ~PlaceGroupOrder(u, g, MaxGroupOrders)
                 /\ \A u \in GroupCallers, m \in MembersOf(g) :
                       remove_member(u, m)
                           => groups'[g].current_quantity
                                 = groups[g].current_quantity]_vars

(***************************************************************************)
(* Payment                                                                 *)
(***************************************************************************)

\* C28: an order paid by bank transfer has is_payment_verified = true only
\* after an approve_payment request by that order's seller: no request by the
\* buyer or by any other user (telebirr_pay on that order included) sets
\* is_payment_verified on it.
C28_BankPaymentVerifiedBySeller ==
    [][\A id \in OrderIds \cap DOMAIN orders' :
          (/\ orders[id].payment_method = "bank"
           /\ ~orders[id].is_payment_verified
           /\ orders'[id].is_payment_verified)
              => approve_payment(orders[id].seller, id)]_vars

(***************************************************************************)
(* Users: registration, the DriverProfile hook, login                      *)
(***************************************************************************)

MaxUsers == 2

UserIds == DOMAIN users

\* The phone numbers people register with (phone_number is unique).
PhoneNumbers == 1 .. MaxUsers

\* The PINs posted: one of four characters and one that is too short.
PostedPins == {Str(1234), Str(12)}

\* user.set_password(raw): the salted hash the password column keeps.
make_password(raw) == <<"pbkdf2_sha256", raw>>

\* user.check_password(raw)
check_password(raw, encoded) == encoded = make_password(raw)

\* A CustomUser instance as the registration forms build it.
NewUser(phone, raw_password, type, verified) ==
    [phone_number |-> phone, password |-> make_password(raw_password),
     user_type |-> type, is_verified |-> verified, location |-> ""]

\* DriverProfile(user=...) with the model's field defaults.
NewProfile(user_id) ==
    [user |-> user_id, workforce_type |-> "CDN", status |-> "pending",
     vehicle_type |-> "", license_number |-> None]

\* user.driver_profile: the DriverProfile rows of a user in a table
ProfilesOf(table, user_id) == {p \in table : p.user = user_id}

\* The receiver create_driver_profile: the rows it adds to DriverProfile.
create_driver_profile(user_id, instance, created) ==
    IF created /\ instance.user_type = "delivery"
    THEN {NewProfile(user_id)}
    ELSE {}

\* post_save.send(sender=origin, ...) of Model.save_base: the sender is the
\* class of the saved instance (the proxy class for a proxy instance), and the
\* receiver was connected with sender=CustomUser.
post_save(sender, user_id, instance, created) ==
    IF sender = "CustomUser"
    THEN create_driver_profile(user_id, instance, created)
    ELSE {}

\* The ModelForm validation the registration forms share: the PIN has four
\* characters and the phone number is not registered yet.
ValidRegistration(phone, raw_password) ==
    /\ Len(raw_password) = 4
    /\ \A id \in UserIds : users[id].phone_number # phone

\* The frame of a view of the users app.
UsersOnly ==
    UNCHANGED <<backend, inst, orders, nextOrderId, stock, groups, members,
                nextMemberId, reqs>>

\* login(request, user)
login(browser, user_id) == sessions' = [sessions EXCEPT ![browser] = user_id]

\* register_farmer, register_supplier, register_buyer: a POST of the form.
\* The forms set user_type and is_verified (True for buyers only); the view
\* logs the new user in.
register(browser, type, phone, raw_password) ==
    /\ type \in {"farmer", "supplier", "buyer"}
    /\ Len(users) < MaxUsers
    /\ IF ValidRegistration(phone, raw_password)
       THEN LET id == Len(users) + 1
                user == NewUser(phone, raw_password, type, type = "buyer")
            IN  /\ users' = Append(users, user)
                /\ profiles' = profiles \cup post_save("CustomUser", id, user, TRUE)
                /\ login(browser, id)
       ELSE UNCHANGED <<users, profiles, sessions>>
    /\ UNCHANGED errors
    /\ UsersOnly

\* register_delivery: a POST of the form with its vehicle type
register_delivery(browser, phone, raw_password, vehicle_type) ==
    /\ Len(users) < MaxUsers
    /\ IF ValidRegistration(phone, raw_password)
       THEN LET id == Len(users) + 1
                user == NewUser(phone, raw_password, "delivery", FALSE)
                saved == profiles \cup post_save("CustomUser", id, user, TRUE)
            IN  /\ users' = Append(users, user)
                \* profile = user.driver_profile
                /\ IF ProfilesOf(saved, id) = {}
                   THEN /\ profiles' = saved
                        /\ Raise("register_delivery: RelatedObjectDoesNotExist")
                   ELSE /\ profiles' =
                              (saved \ ProfilesOf(saved, id)) \cup
                                  {[p EXCEPT !.workforce_type = "CDN",
                                             !.status = "pending",
                                             !.vehicle_type = vehicle_type] :
                                      p \in ProfilesOf(saved, id)}
                        /\ UNCHANGED errors
       ELSE UNCHANGED <<users, profiles, errors>>
    /\ UNCHANGED sessions
    /\ UsersOnly

\* A variant that lets every driver in (not the code's rule).
AwaitsVerificationNever(user) == FALSE

\* `if user.user_type == 'delivery': if not user.is_verified:` of login_view
AwaitsVerification(user) == user.user_type = "delivery" /\ ~user.is_verified

\* authenticate(request, username=phone, password=pin): the ids of the users
\* the credentials belong to (at most one)
authenticate(phone, raw_password) ==
    {id \in UserIds : /\ users[id].phone_number = phone
                      /\ check_password(raw_password, users[id].password)}

\* login_view(request)
login_view(browser, method, phone, raw_password) ==
    /\ IF method = "POST" /\ authenticate(phone, raw_password) # {}
       THEN LET id == CHOOSE i \in authenticate(phone, raw_password) : TRUE
            IN  IF AwaitsVerification(users[id])
                THEN UNCHANGED sessions
                ELSE login(browser, id)
       ELSE UNCHANGED sessions
    /\ UNCHANGED <<users, profiles, errors>>
    /\ UsersOnly

\* logout_view(request)
logout_view(browser) ==
    /\ sessions' = [sessions EXCEPT ![browser] = Anonymous]
    /\ UNCHANGED <<users, profiles, errors>>
    /\ UsersOnly

\* profile_view(request): a POST of a valid ProfileUpdateForm; form.save()
\* saves the existing user (post_save with created False).
profile_view(browser, location) ==
    /\ sessions[browser] # Anonymous          \* @login_required
    /\ LET id == sessions[browser]
           user == [users[id] EXCEPT !.location = location]
       IN  /\ users' = [users EXCEPT ![id] = user]
           /\ profiles' = profiles \cup post_save("CustomUser", id, user, FALSE)
    /\ UNCHANGED <<sessions, errors>>
    /\ UsersOnly

\* CustomUserAdmin.approve_drivers(request, queryset)
approve_drivers(queryset) ==
    /\ queryset \subseteq UserIds
    /\ queryset # {}
    /\ users' = [id \in UserIds |->
                    IF id \in queryset THEN [users[id] EXCEPT !.is_verified = TRUE]
                    ELSE users[id]]
    /\ profiles' = {IF p.user \in queryset THEN [p EXCEPT !.status = "approved"]
                    ELSE p : p \in profiles}
    /\ UNCHANGED <<sessions, errors>>
    /\ UsersOnly

\* DedicatedEmployeeAdmin: the add form is saved.  save_model sets the user
\* fields and saves the DedicatedEmployee instance, then updates the profile
\* if there is one; save_related then saves the inline DriverProfile form if
\* anything was entered in it.
add_employee(phone, raw_password, inline_filled, vehicle_type) ==
    /\ Len(users) < MaxUsers
    /\ IF \A id \in UserIds : users[id].phone_number # phone
       THEN LET id == Len(users) + 1
                obj == NewUser(phone, raw_password, "delivery", TRUE)
                saved == profiles \cup post_save("DedicatedEmployee", id, obj, TRUE)
                \* if hasattr(obj, 'driver_profile')
                updated == {IF p.user = id
                            THEN [p EXCEPT !.workforce_type = "DEDICATED",
                                           !.status = "approved"]
                            ELSE p : p \in saved}
                inline == IF inline_filled
                          THEN {[NewProfile(id) EXCEPT !.vehicle_type = vehicle_type]}
                          ELSE {}
                \* a second DriverProfile of one user violates the unique
                \* constraint of the OneToOneField: the admin's transaction
                \* is rolled back
            IN  IF inline # {} /\ ProfilesOf(updated, id) # {}
                THEN /\ UNCHANGED <<users, profiles>>
                     /\ Raise("add_employee: IntegrityError")
                ELSE /\ users' = Append(users, obj)
                     /\ profiles' = updated \cup inline
                     /\ UNCHANGED errors
       ELSE UNCHANGED <<users, profiles, errors>>
    /\ UNCHANGED sessions
    /\ UsersOnly

\* The users views and admin actions run from an empty user table.
InitUsers == InitGroup

VehicleTypes == {"van"}
PostedLocations == {"Adama"}

NextUsers ==
    \/ \E b \in Browsers, t \in {"farmer", "supplier", "buyer"},
          ph \in PhoneNumbers, pin \in PostedPins : register(b, t, ph, pin)
    \/ \E b \in Browsers, ph \in PhoneNumbers, pin \in PostedPins,
          v \in VehicleTypes : register_delivery(b, ph, pin, v)
    \/ \E b \in Browsers, m \in Methods, ph \in PhoneNumbers, pin \in PostedPins :
          login_view(b, m, ph, pin)
    \/ \E b \in Browsers : logout_view(b)
    \/ \E b \in Browsers, l \in PostedLocations : profile_view(b, l)
    \/ \E q \in SUBSET UserIds : approve_drivers(q)
    \/ \E ph \in PhoneNumbers, pin \in PostedPins, f \in BOOLEAN,
          v \in VehicleTypes : add_employee(ph, pin, f, v)

SpecUsers == InitUsers /\ [][NextUsers]_vars

\* C29: a user record created with user_type delivery has exactly one
\* DriverProfile immediately after creation; saving an existing user again
\* creates no further profile, and creating a user of any other type creates
\* none.
C29_OneProfilePerDriver ==
    [][/\ \A id \in DOMAIN users' \ UserIds :
             Cardinality(ProfilesOf(profiles', id))
                = IF users'[id].user_type = "delivery" THEN 1 ELSE 0
       /\ \A id \in UserIds :
             Cardinality(ProfilesOf(profiles', id))
                = Cardinality(ProfilesOf(profiles, id))]_vars

\* C30: a delivery user whose is_verified flag is false never obtains a
\* logged-in session: register_delivery does not log the new driver in, and
\* login_view with correct credentials sends an unverified delivery user to
\* the pending page without logging in, while farmers, buyers and suppliers
\* are logged in whatever their is_verified is.
C30_UnverifiedDriverHasNoSession ==
    /\ [](\A b \in Browsers :
            (sessions[b] # Anonymous /\ users[sessions[b]].user_type = "delivery")
                => users[sessions[b]].is_verified)
    /\ [][/\ \A b \in Browsers, ph \in PhoneNumbers, pin \in PostedPins,
              v \in VehicleTypes :
                register_delivery(b, ph, pin, v) => UNCHANGED sessions
          /\ \A b \in Browsers, id \in UserIds, pin \in PostedPins :
                (/\ check_password(pin, users[id].password)
                 /\ login_view(b, "POST", users[id].phone_number, pin))
                    => IF users[id].user_type = "delivery" /\ ~users[id].is_verified
                       THEN UNCHANGED sessions
                       ELSE sessions'[b] = id]_vars

\* A registered driver who is not verified and is logged in nowhere, next to
\* an unverified farmer who is logged in and has saved their profile.
C30_Witness ==
    /\ Len(users) = 2
    /\ users[1].user_type = "delivery"
    /\ ~users[1].is_verified
    /\ users[2].user_type = "farmer"
    /\ ~users[2].is_verified
    /\ \A b \in Browsers : sessions[b] = 2
    /\ users[2].location = "Adama"

=============================================================================
